---- MODULE Spec2Model ----
(***************************************************************************)
(* readwise.py: export of Readwise highlights with generated tags,         *)
(* followed by the write-back of the tags of the exported CSV rows.        *)
(*                                                                         *)
(* Strings are sequences of one-character strings, so that strip, split,   *)
(* join and str are computed as Python computes them.  The CSV file is the *)
(* sequence of its data rows, the log file is its character content.       *)
(***************************************************************************)
EXTENDS Integers, Sequences, FiniteSets, TLC

VARIABLES
    remote,             \* the Readwise service: pages of books of highlights
    csv_file,                \* Highlights_with_Tags.csv: its data rows
    success_log_file,            \* updated_highlights_log.txt: its characters
    pc,                 \* position of the script
    next_page_cursor,   \* export fetch_highlights: local
    all_highlights,     \* export fetch_highlights: accumulator / all_books
    bk, hl,             \* export loops: index of book, of highlight
    highlights_data,    \* update_tags_from_csv: local
    updated_highlight_ids, \* update_tags_from_csv: local
    row,                \* update_tags_from_csv: index of the row being read
    highlight_id, tags, \* update_highlight_tags: parameters
    retries, backoff,   \* update_highlight_tags: locals
    drifts,             \* number of edits made to the remote highlights
    runs,               \* number of runs of the script started after the first
    gets,               \* history: the GET requests of the run
    calls,              \* history: one record per call of update_highlight_tags
    rowlog,             \* history: one record per CSV row processed
    startlog,           \* history: the log file when update_tags_from_csv began
    exportlog,          \* history: one record per highlight the export went through
    succeeded           \* history: the IDs of the calls that returned True, all runs

vars == <<remote, csv_file, success_log_file, pc, next_page_cursor,
          all_highlights, bk, hl,
          highlights_data, updated_highlight_ids, row, highlight_id, tags,
          retries, backoff, drifts, runs, gets, calls, rowlog, startlog,
          exportlog, succeeded>>

\* a file that does not exist, and a file holding data
NoFile == [exists |-> FALSE, data |-> <<>>]
File(data) == [exists |-> TRUE, data |-> data]

\* Python's None where a cursor is expected: it is falsy, like a missing cursor
None == 0

\* ------------------------------------------------------------------ bounds
\* edits the remote service may receive between the two phases
MaxDrift == 1
\* runs of the script after the first, in the same directory
MaxRuns == 1

\* ------------------------------------------------------- program constants
MAX_RETRIES == 5
InitialBackoff == 2
TagTarget == 3

\* ----------------------------------------------------------------- strings
Whitespace == {" ", "\n"}

Least(S) == CHOOSE i \in S : \A j \in S : i <= j
Greatest(S) == CHOOSE i \in S : \A j \in S : i >= j

\* str.strip(): from the first to the last character that is not whitespace
Strip(s) ==
    LET kept == {i \in DOMAIN s : s[i] \notin Whitespace}
    IN  IF kept = {} THEN <<>> ELSE SubSeq(s, Least(kept), Greatest(kept))

\* the least i with sep at s[i..], 0 when sep does not occur
FindSep(s, sep) ==
    LET at == {i \in 1..(Len(s) - Len(sep) + 1) :
                  SubSeq(s, i, i + Len(sep) - 1) = sep}
    IN  IF at = {} THEN 0 ELSE Least(at)

\* str.split(sep), sep not empty
RECURSIVE Split(_, _)
Split(s, sep) ==
    LET i == FindSep(s, sep)
    IN  IF i = 0 THEN <<s>>
        ELSE <<SubSeq(s, 1, i - 1)>>
                 \o Split(SubSeq(s, i + Len(sep), Len(s)), sep)

\* sep.join(parts)
RECURSIVE Join(_, _)
Join(parts, sep) ==
    IF parts = <<>> THEN <<>>
    ELSE IF Len(parts) = 1 THEN parts[1]
    ELSE parts[1] \o sep \o Join(Tail(parts), sep)

CommaSpace == <<",", " ">>
Comma == <<",">>

Digits == <<"0", "1", "2", "3", "4", "5", "6", "7", "8", "9">>

\* str(n) of a natural number
RECURSIVE Str(_)
Str(n) ==
    IF n < 10 THEN <<Digits[n + 1]>>
    ELSE Str(n \div 10) \o <<Digits[(n % 10) + 1]>>

\* f.readlines(): the lines of the content, each with its line break; a
\* line ends at a line break or at the end of the content
ReadLines(content) ==
    LET n == Len(content)
        ends == {i \in 1..n : content[i] = "\n" \/ i = n}
        first(e) == Greatest({0} \cup {j \in ends : j < e}) + 1
        kth(k) == CHOOSE e \in ends : Cardinality({j \in ends : j <= e}) = k
    IN  [k \in 1..Cardinality(ends) |-> SubSeq(content, first(kth(k)), kth(k))]

Range(f) == {f[i] : i \in DOMAIN f}

RECURSIVE Flatten(_)
Flatten(ss) == IF ss = <<>> THEN <<>> ELSE Head(ss) \o Flatten(Tail(ss))

Take(s, n) == SubSeq(s, 1, IF n < Len(s) THEN n ELSE Len(s))

\* ------------------------------------------------------------ remote data
\* a highlight of the export endpoint; tags holds the names of its tag objects
Highlight(id, text, names) == [id |-> id, text |-> text, tags |-> names]
Book(title, hs) == [title |-> title, highlights |-> hs]

TitlePool == {<<"T">>, <<"t">>}
TextPool == {<<"a">>, <<" ", "a">>, <<"A">>, <<" ">>}
ExistingPool ==
    {<<>>, <<<<"x">>, <<"y">>>>, <<<<"x">>, <<"y">>, <<"z">>>>,
     <<<<"x">>, <<"y">>, <<"z">>, <<"w">>>>}
IdPool == {7, 42}
IdA == CHOOSE i \in IdPool : \A j \in IdPool : i <= j
IdB == CHOOSE i \in IdPool : \A j \in IdPool : i >= j

\* the service's data the runs start from: two highlights, in one book, in
\* two books of one page, in two books on two pages, or in two books on the
\* first and the last of three pages
RemotePool ==
    LET one(h1, h2)      == << <<Book(<<"T">>, <<h1, h2>>)>> >>
        two(h1, h2, t)   == << <<Book(<<"T">>, <<h1>>), Book(t, <<h2>>)>> >>
        paged(h1, h2, t) == << <<Book(<<"T">>, <<h1>>)>>, <<Book(t, <<h2>>)>> >>
        three(h1, h2)    == << <<Book(<<"T">>, <<h1>>)>>, <<>>,
                               <<Book(<<"T">>, <<h2>>)>> >>
        H1 == {Highlight(IdA, x, g) : x \in TextPool, g \in ExistingPool}
        H2 == {Highlight(IdB, x, <<>>) : x \in TextPool}
    IN  {one(h1, h2) : h1 \in H1, h2 \in H2}
        \cup {two(h1, h2, t) : h1 \in H1, h2 \in H2, t \in TitlePool}
        \cup {paged(h1, h2, t) : h1 \in H1, h2 \in H2, t \in TitlePool}
        \cup {three(h1, h2) : h1 \in {Highlight(IdA, <<"a">>, <<>>)}, h2 \in H2}

\* what the text-generation service may answer
ResponsePool ==
    {<<" ", "p", ",", " ", ",", "q", " ">>,
     <<"p", ",", " ", "q", ",", "r", ",", "s">>}

\* the export endpoint: the page a cursor names, and the cursor of the next
ServerPage(cursor) == IF cursor = None THEN 1 ELSE cursor
ServerResults(cursor) == remote[ServerPage(cursor)]
ServerNext(cursor) ==
    IF ServerPage(cursor) < Len(remote) THEN ServerPage(cursor) + 1 ELSE None

\* ------------------------------------------------------------------- Init
\* the locals and histories of a run of the script that starts
Started ==
    /\ pc = "x_get"
    /\ next_page_cursor = None
    /\ all_highlights = <<>>
    /\ bk = 1
    /\ hl = 1
    /\ highlights_data = <<>>
    /\ updated_highlight_ids = {}
    /\ row = 1
    /\ highlight_id = 0
    /\ tags = <<>>
    /\ retries = 0
    /\ backoff = 0
    /\ gets = <<>>
    /\ calls = <<>>
    /\ rowlog = <<>>
    /\ startlog = NoFile
    /\ exportlog = <<>>

\* the first run of the script, in a directory without CSV and log file
Init ==
    /\ remote \in RemotePool
    /\ csv_file = NoFile
    /\ success_log_file = NoFile
    /\ drifts = 0
    /\ runs = 0
    /\ succeeded = <<>>
    /\ Started

\* the data of the runs that are followed by further runs: the highlights
\* have the letter a as text, one of them in either case, and no tags
RerunPool ==
    {r \in RemotePool :
        \A p \in DOMAIN r : \A b \in DOMAIN r[p] :
            \A h \in DOMAIN r[p][b].highlights :
                /\ r[p][b].highlights[h].text
                       \in (IF r[p][b].highlights[h].id = IdA
                            THEN {<<"a">>} ELSE {<<"a">>, <<"A">>})
                /\ r[p][b].highlights[h].tags = <<>>}

InitRuns ==
    /\ remote \in RerunPool
    /\ csv_file = NoFile
    /\ success_log_file = NoFile
    /\ drifts = 0
    /\ runs = 0
    /\ succeeded = <<>>
    /\ Started

\* ----------------------------------------------------------- export phase
exportLocals == <<next_page_cursor, all_highlights, bk, hl>>
updateLocals == <<highlights_data, updated_highlight_ids, row>>
pushLocals == <<highlight_id, tags, retries, backoff>>
histories == <<gets, calls, rowlog, startlog, exportlog>>

\* params of the GET never holding a cursor
NoCursorParam == None

\* params of the GET: the cursor when there is one
CursorParam == IF next_page_cursor # None THEN next_page_cursor ELSE None

\* fetch_highlights (export), one iteration answered 200
ExportGetOk ==
    /\ pc = "x_get"
    /\ LET results == ServerResults(CursorParam)
           next == ServerNext(CursorParam)
       IN  /\ all_highlights' = all_highlights \o results
           /\ next_page_cursor' = next
           /\ pc' = IF next = None THEN "x_open" ELSE "x_get"
           /\ gets' = Append(gets, [phase |-> "export", cursor |-> CursorParam, status |-> 200,
                                    results |-> results, next |-> next])
    /\ UNCHANGED <<remote, csv_file, success_log_file, bk, hl, updateLocals,
                   pushLocals, drifts, runs, succeeded, calls, rowlog,
                   startlog,
                   exportlog>>

\* fetch_highlights (export), one iteration answered by another status
ExportGetFail ==
    /\ pc = "x_get"
    /\ pc' = "x_open"
    /\ gets' = Append(gets, [phase |-> "export", cursor |-> CursorParam, status |-> 500,
                             results |-> <<>>, next |-> None])
    /\ UNCHANGED <<remote, csv_file, success_log_file, exportLocals,
                   updateLocals, pushLocals, drifts, runs, succeeded, calls,
                   rowlog, startlog,
                   exportlog>>

\* fetch_highlights (export), requests.get raises: the module-level try
\* catches it and the script goes on with the update phase
ExportGetError ==
    /\ pc = "x_get"
    /\ pc' = "u_get"
    /\ gets' = Append(gets, [phase |-> "export", cursor |-> CursorParam, status |-> 0,
                             results |-> <<>>, next |-> None])
    /\ UNCHANGED <<remote, csv_file, success_log_file, exportLocals,
                   updateLocals, pushLocals, drifts, runs, succeeded, calls,
                   rowlog, startlog,
                   exportlog>>

\* open(csv_file, "w") and the header row
ExportOpen ==
    /\ pc = "x_open"
    /\ csv_file' = File(<<>>)
    /\ bk' = 1
    /\ hl' = 1
    /\ pc' = "x_rows"
    /\ UNCHANGED <<remote, success_log_file, next_page_cursor, all_highlights,
                   updateLocals, pushLocals, drifts, runs, succeeded,
                   histories>>

\* generate_tags_from_openai: the tags of a response
ParseTags(content) ==
    LET parts == Split(Strip(content), Comma)
        stripped == [i \in DOMAIN parts |-> Strip(parts[i])]
    IN  SelectSeq(stripped, LAMBDA t : t # <<>>)

\* what client.chat.completions.create may do: answer with a content, or
\* raise an exception
AnswerPool ==
    {[ok |-> TRUE, content |-> c] : c \in ResponsePool}
        \cup {[ok |-> FALSE, content |-> <<>>]}

\* generate_tags_from_openai letting the failure show in what it returns
generate_tags_leaking(answer) ==
    ParseTags(IF answer.ok THEN answer.content ELSE <<"e">>)

\* generate_tags_from_openai: the tags of the content, or the empty list
\* after an exception
generate_tags_from_openai(answer) ==
    IF answer.ok THEN ParseTags(answer.content) ELSE <<>>

\* what generate_tags_from_openai may return
SuggestedTags == {generate_tags_from_openai(a) : a \in AnswerPool}

\* the final tags without the cut to what is missing
FinalTagsUncut(existing, additional) ==
    IF Len(existing) < TagTarget THEN existing \o additional ELSE existing

\* the final tags of a highlight with the suggester returning additional
FinalTags(existing, additional) ==
    IF Len(existing) < TagTarget
    THEN existing \o Take(additional, TagTarget - Len(existing))
    ELSE existing

\* a highlight with text: its tags are completed by the suggester's, called
\* once per element of answers, and its row is written
WriteRow(book, h, highlight_text, answers) ==
    LET returned == [i \in DOMAIN answers |-> generate_tags_from_openai(answers[i])]
        existing_tags == FinalTags(h.tags, Flatten(returned))
    IN  /\ csv_file' = File(Append(csv_file.data,
                [title |-> book.title, text |-> highlight_text,
                 tags |-> Join(existing_tags, CommaSpace)]))
        /\ exportlog' = Append(exportlog,
                [id |-> h.id, existing |-> h.tags, answers |-> answers,
                 returned |-> returned, final |-> existing_tags,
                 row |-> Len(csv_file.data) + 1])

\* a highlight whose text is empty once stripped: nothing is written
SkipRow(h) ==
    /\ csv_file' = csv_file
    /\ exportlog' = Append(exportlog,
            [id |-> h.id, existing |-> h.tags, answers |-> <<>>,
             returned |-> <<>>, final |-> <<>>, row |-> 0])

\* the body of the loop over the highlights of a book
ExportHighlight ==
    /\ pc = "x_rows"
    /\ bk <= Len(all_highlights)
    /\ hl <= Len(all_highlights[bk].highlights)
    /\ LET book == all_highlights[bk]
           h == book.highlights[hl]
           highlight_text == Strip(h.text)
       IN  IF highlight_text # <<>>
           THEN IF Len(h.tags) < TagTarget
                THEN \E answer \in AnswerPool :
                         WriteRow(book, h, highlight_text, <<answer>>)
                ELSE WriteRow(book, h, highlight_text, <<>>)
           ELSE SkipRow(h)
    /\ hl' = hl + 1
    /\ UNCHANGED <<remote, success_log_file, pc, next_page_cursor,
                   all_highlights, bk, updateLocals, pushLocals, drifts, runs,
                   succeeded, gets, calls, rowlog, startlog>>

\* the loop over the highlights of a book ends
ExportBookEnd ==
    /\ pc = "x_rows"
    /\ bk <= Len(all_highlights)
    /\ hl > Len(all_highlights[bk].highlights)
    /\ bk' = bk + 1
    /\ hl' = 1
    /\ UNCHANGED <<remote, csv_file, success_log_file, pc, next_page_cursor,
                   all_highlights, updateLocals, pushLocals, drifts, runs,
                   succeeded, histories>>

\* the loop over the books ends: the file is closed, the document saved
ExportSave ==
    /\ pc = "x_rows"
    /\ bk > Len(all_highlights)
    /\ pc' = "u_get"
    /\ UNCHANGED <<remote, csv_file, success_log_file, exportLocals,
                   updateLocals, pushLocals, drifts, runs, succeeded,
                   histories>>

\* ----------------------------------------------------- the remote changes
\* the highlights of the service, as <<page, book, highlight>> positions
Positions ==
    {<<p, b, h>> \in (1..3) \X (1..2) \X (1..2) :
        /\ p <= Len(remote)
        /\ b <= Len(remote[p])
        /\ h <= Len(remote[p][b].highlights)}

\* between the export and the update the text of a highlight is edited at
\* the service: characters are appended to it
RemoteDrift ==
    /\ pc = "u_get"
    /\ drifts < MaxDrift
    /\ \E pos \in Positions :
          remote' = [remote EXCEPT ![pos[1]][pos[2]].highlights[pos[3]].text
                                       = @ \o <<"b">>]
    /\ drifts' = drifts + 1
    /\ UNCHANGED <<csv_file, success_log_file, pc, exportLocals, updateLocals,
                   pushLocals, runs, succeeded, histories>>

\* ----------------------------------------------------------- update phase
\* load_updated_highlight_ids keeping the line breaks of the lines
load_unstripped ==
    IF success_log_file.exists THEN Range(ReadLines(success_log_file.data)) ELSE {}

\* load_updated_highlight_ids
load_updated_highlight_ids ==
    IF success_log_file.exists
    THEN {Strip(line) : line \in Range(ReadLines(success_log_file.data))}
    ELSE {}

\* update_tags_from_csv after its fetch: the log is loaded and the CSV file
\* opened, which raises when the file does not exist
UpdateBegin(data, status, next) ==
    /\ pc = "u_get"
    /\ highlights_data' = data
    /\ updated_highlight_ids' = load_updated_highlight_ids
    /\ row' = 1
    /\ pc' = IF csv_file.exists THEN "u_rows" ELSE "crashed"
    /\ gets' = Append(gets, [phase |-> "update", cursor |-> None,
                             status |-> status, results |-> data,
                             next |-> next])
    /\ startlog' = success_log_file
    /\ UNCHANGED <<remote, csv_file, success_log_file, exportLocals,
                   pushLocals, drifts, runs, succeeded, calls, rowlog,
                   exportlog>>

\* fetch_highlights (update): one GET without a cursor, answered 200
UpdateGetOk == UpdateBegin(ServerResults(None), 200, ServerNext(None))

\* fetch_highlights (update): another status
UpdateGetFail == UpdateBegin(<<>>, 500, None)

\* fetch_highlights (update): requests.get raises
UpdateGetError == UpdateBegin(<<>>, 0, None)

\* the inner loop: the first highlight of the book with the row's text, as a
\* sequence of at most one highlight
MatchInBook(book, highlight_text) ==
    LET eq == {i \in DOMAIN book.highlights :
                  book.highlights[i].text = highlight_text}
    IN  IF eq = {} THEN <<>>
        ELSE <<book.highlights[CHOOSE i \in eq : \A j \in eq : i <= j]>>

\* the outer loop from book i on, matching_highlight being m so far
RECURSIVE ScanBooks(_, _, _, _, _)
ScanBooks(books, i, title, highlight_text, m) ==
    IF i > Len(books) THEN m
    ELSE LET found == IF books[i].title = title
                      THEN MatchInBook(books[i], highlight_text)
                      ELSE <<>>
         IN  ScanBooks(books, i + 1, title, highlight_text,
                       IF found # <<>> THEN found ELSE m)

\* matching_highlight of a row
MatchingHighlight(books, r) == ScanBooks(books, 1, r.title, r.text, <<>>)

\* the tags of a row
RowTags(r) == Split(r.tags, CommaSpace)

\* the body of the loop over the rows of the CSV file
UpdateRow ==
    /\ pc = "u_rows"
    /\ row <= Len(csv_file.data)
    /\ LET r == csv_file.data[row]
           m == MatchingHighlight(highlights_data, r)
       IN  IF m = <<>>
           THEN /\ rowlog' = Append(rowlog, [row |-> row, id |-> 0,
                                             outcome |-> "unmatched"])
                /\ row' = row + 1
                /\ UNCHANGED <<pc, pushLocals, calls>>
           ELSE IF Str(m[1].id) \in updated_highlight_ids
           THEN /\ rowlog' = Append(rowlog, [row |-> row, id |-> m[1].id,
                                             outcome |-> "skipped"])
                /\ row' = row + 1
                /\ UNCHANGED <<pc, pushLocals, calls>>
           ELSE /\ rowlog' = Append(rowlog, [row |-> row, id |-> m[1].id,
                                             outcome |-> "pushed"])
                /\ highlight_id' = m[1].id
                /\ tags' = RowTags(r)
                /\ retries' = 0
                /\ backoff' = InitialBackoff
                /\ calls' = Append(calls, [id |-> m[1].id, tags |-> RowTags(r),
                                           statuses |-> <<>>, sleeps |-> <<>>,
                                           ret |-> "running",
                                           logBefore |-> success_log_file,
                                           logAfter |-> success_log_file])
                /\ pc' = "push"
                /\ UNCHANGED row
    /\ UNCHANGED <<remote, csv_file, success_log_file, exportLocals,
                   highlights_data, updated_highlight_ids, drifts, runs,
                   succeeded, gets, startlog,
                   exportlog>>

\* the loop over the rows ends, and the script with it
UpdateEnd ==
    /\ pc = "u_rows"
    /\ row > Len(csv_file.data)
    /\ pc' = "done"
    /\ UNCHANGED <<remote, csv_file, success_log_file, exportLocals,
                   updateLocals, pushLocals, drifts, runs, succeeded,
                   histories>>

\* ---------------------------------------------------- update_highlight_tags
\* log_successful_update opening the file with mode "w"
log_overwriting(id) ==
    File(Str(id) \o <<"\n">>)

\* log_successful_update
log_successful_update(id) ==
    File(success_log_file.data \o Str(id) \o <<"\n">>)

\* the service replaces the tags of the highlight
Patched(id, names) ==
    [p \in DOMAIN remote |->
        [b \in DOMAIN remote[p] |->
            [remote[p][b] EXCEPT !.highlights =
                [h \in DOMAIN @ |->
                    IF @[h].id = id THEN [@[h] EXCEPT !.tags = names]
                    ELSE @[h]]]]]

\* the record of the running call with one more response, sleep and result
Answered(status, slept, ret, log) ==
    [calls EXCEPT ![Len(calls)] =
        [@ EXCEPT !.statuses = Append(@, status),
                  !.sleeps = @ \o slept,
                  !.ret = ret,
                  !.logAfter = log]]

\* Return with the loop passing over the row that follows
ReturnSkipping ==
    /\ pc' = "u_rows"
    /\ row' = row + 2

\* update_highlight_tags returns to the loop over the rows
Return ==
    /\ pc' = "u_rows"
    /\ row' = row + 1

\* PatchOk with the call of log_successful_update left out
PatchOkNoLog ==
    /\ pc = "push"
    /\ retries < MAX_RETRIES
    /\ remote' = Patched(highlight_id, tags)
    /\ calls' = Answered(200, <<>>, "true", success_log_file)
    /\ succeeded' = Append(succeeded, highlight_id)
    /\ Return
    /\ UNCHANGED <<csv_file, success_log_file, exportLocals, highlights_data,
                   updated_highlight_ids, pushLocals, drifts, runs, gets,
                   rowlog, startlog,
                   exportlog>>

\* the PATCH is answered 200
PatchOk ==
    /\ pc = "push"
    /\ retries < MAX_RETRIES
    /\ success_log_file' = log_successful_update(highlight_id)
    /\ remote' = Patched(highlight_id, tags)
    /\ calls' = Answered(200, <<>>, "true", success_log_file')
    /\ succeeded' = Append(succeeded, highlight_id)
    /\ Return
    /\ UNCHANGED <<csv_file, exportLocals, highlights_data,
                   updated_highlight_ids, pushLocals, drifts, runs, gets,
                   rowlog, startlog,
                   exportlog>>

\* PatchRateLimited with the backoff left as it is
PatchRateLimitedFlat ==
    /\ pc = "push"
    /\ retries < MAX_RETRIES
    /\ retries' = retries + 1
    /\ calls' = Answered(429, <<backoff>>, "running", success_log_file)
    /\ UNCHANGED <<remote, csv_file, success_log_file, pc, exportLocals,
                   updateLocals, highlight_id, tags, backoff, drifts, runs,
                   succeeded, gets, rowlog, startlog,
                   exportlog>>

\* PatchRateLimited with the retries left uncounted
PatchRateLimitedUncounted ==
    /\ pc = "push"
    /\ retries < MAX_RETRIES
    /\ backoff' = backoff * 2
    /\ calls' = Answered(429, <<backoff>>, "running", success_log_file)
    /\ UNCHANGED <<remote, csv_file, success_log_file, pc, exportLocals,
                   updateLocals, highlight_id, tags, retries, drifts, runs,
                   succeeded, gets, rowlog, startlog, exportlog>>

\* the PATCH is answered 429
PatchRateLimited ==
    /\ pc = "push"
    /\ retries < MAX_RETRIES
    /\ backoff' = backoff * 2
    /\ retries' = retries + 1
    /\ calls' = Answered(429, <<backoff>>, "running", success_log_file)
    /\ UNCHANGED <<remote, csv_file, success_log_file, pc, exportLocals,
                   updateLocals, highlight_id, tags, drifts, runs, succeeded,
                   gets, rowlog, startlog,
                   exportlog>>

\* PatchFail going round the loop again instead of returning
PatchFailRetry ==
    /\ pc = "push"
    /\ retries < MAX_RETRIES
    /\ retries' = retries + 1
    /\ calls' = Answered(500, <<>>, "running", success_log_file)
    /\ UNCHANGED <<remote, csv_file, success_log_file, pc, exportLocals,
                   updateLocals, highlight_id, tags, backoff, drifts, runs,
                   succeeded, gets, rowlog, startlog,
                   exportlog>>

\* the PATCH is answered by another status
PatchFail ==
    /\ pc = "push"
    /\ retries < MAX_RETRIES
    /\ calls' = Answered(500, <<>>, "false", success_log_file)
    /\ Return
    /\ UNCHANGED <<remote, csv_file, success_log_file, exportLocals,
                   highlights_data, updated_highlight_ids, pushLocals, drifts,
                   runs, succeeded, gets, rowlog, startlog,
                   exportlog>>

\* PatchError with the exception leaving update_highlight_tags and the pass
PatchErrorAborting ==
    /\ pc = "push"
    /\ retries < MAX_RETRIES
    /\ calls' = Answered(0, <<>>, "false", success_log_file)
    /\ pc' = "crashed"
    /\ UNCHANGED <<remote, csv_file, success_log_file, exportLocals,
                   updateLocals, pushLocals, drifts, runs, succeeded, gets,
                   rowlog, startlog, exportlog>>

\* requests.patch raises
PatchError ==
    /\ pc = "push"
    /\ retries < MAX_RETRIES
    /\ calls' = Answered(0, <<>>, "false", success_log_file)
    /\ Return
    /\ UNCHANGED <<remote, csv_file, success_log_file, exportLocals,
                   highlights_data, updated_highlight_ids, pushLocals, drifts,
                   runs, succeeded, gets, rowlog, startlog,
                   exportlog>>

\* the while loop ends: max retries exceeded
PushGiveUp ==
    /\ pc = "push"
    /\ ~(retries < MAX_RETRIES)
    /\ calls' = [calls EXCEPT ![Len(calls)].ret = "false"]
    /\ Return
    /\ UNCHANGED <<remote, csv_file, success_log_file, exportLocals,
                   highlights_data, updated_highlight_ids, pushLocals, drifts,
                   runs, succeeded, gets, rowlog, startlog,
                   exportlog>>

\* ------------------------------------------------------------------- Next
\* the steps of the script
Script ==
    \/ ExportGetOk
    \/ ExportGetFail
    \/ ExportGetError
    \/ ExportOpen
    \/ ExportHighlight
    \/ ExportBookEnd
    \/ ExportSave
    \/ UpdateGetOk
    \/ UpdateGetFail
    \/ UpdateGetError
    \/ UpdateRow
    \/ UpdateEnd
    \/ PatchOk
    \/ PatchRateLimited
    \/ PatchFail
    \/ PatchError
    \/ PushGiveUp

Next == Script \/ RemoteDrift

\* one run of the script in a fresh directory, the service's data being
\* edited between the two phases
Spec == Init /\ [][Next]_vars

\* the script is run again in the directory of the run that ended
Rerun ==
    /\ pc \in {"done", "crashed"}
    /\ runs < MaxRuns
    /\ runs' = runs + 1
    /\ pc' = "x_get"
    /\ next_page_cursor' = None
    /\ all_highlights' = <<>>
    /\ bk' = 1
    /\ hl' = 1
    /\ highlights_data' = <<>>
    /\ updated_highlight_ids' = {}
    /\ row' = 1
    /\ highlight_id' = 0
    /\ tags' = <<>>
    /\ retries' = 0
    /\ backoff' = 0
    /\ gets' = <<>>
    /\ calls' = <<>>
    /\ rowlog' = <<>>
    /\ startlog' = NoFile
    /\ exportlog' = <<>>
    /\ UNCHANGED <<remote, csv_file, success_log_file, drifts, succeeded>>

NextRuns == Script \/ Rerun

\* runs of the script one after the other in one directory, the service's
\* data changing by the script's own updates only
SpecRuns == InitRuns /\ [][NextRuns]_vars

\* one run of the script in a fresh directory, every step of it taken in
\* the end when one is possible: the interpreter runs the script on
SpecLive == InitRuns /\ [][Script]_vars /\ WF_vars(Script)

\* ================================================================= claims
RateLimited(n) == [k \in 1..n |-> 429]

\* C1: a call of update_highlight_tags sends at most 5 PATCH requests, the
\* sleep after the k-th 429 is 2 * 2^(k-1), and a call whose 5 requests were
\* all answered 429 returns False and leaves the log file as it was
C1_BackoffAndCap ==
    \A i \in DOMAIN calls :
        LET c == calls[i]
        IN  /\ Len(c.statuses) <= 5
            /\ Len(c.sleeps)
                   = Cardinality({n \in DOMAIN c.statuses : c.statuses[n] = 429})
            /\ \A k \in DOMAIN c.sleeps : c.sleeps[k] = 2 * 2^(k - 1)
            /\ c.statuses = RateLimited(5) =>
                   /\ c.ret # "true"
                   /\ c.logAfter = c.logBefore
                   /\ c.ret = "running" =>
                          /\ pc = "push"
                          /\ i = Len(calls)
                          /\ success_log_file = c.logBefore

C1_Witness ==
    \E i \in DOMAIN calls :
        /\ calls[i].statuses = RateLimited(5)
        /\ calls[i].sleeps = <<2, 4, 8, 16, 32>>
        /\ calls[i].ret = "false"

\* C2: a call whose first k requests (k <= 4) are answered 429 and whose next
\* request is answered 200 sleeps k times, for 2, 4, ..., 2^k, sends nothing
\* after the 200, returns True and has appended its ID to the log once
C2_SuccessAfterRetries ==
    \A i \in DOMAIN calls :
        LET c == calls[i]
        IN  \A n \in DOMAIN c.statuses :
                (c.statuses[n] = 200 /\ SubSeq(c.statuses, 1, n - 1) = RateLimited(n - 1))
                => /\ n = Len(c.statuses)
                   /\ n - 1 <= 4
                   /\ c.sleeps = [k \in 1..(n - 1) |-> 2^k]
                   /\ c.ret = "true"
                   /\ c.logAfter = File(c.logBefore.data \o Str(c.id) \o <<"\n">>)

C2_Witness ==
    \E i \in DOMAIN calls :
        /\ calls[i].statuses = <<429, 429, 429, 200>>
        /\ calls[i].sleeps = <<2, 4, 8>>
        /\ calls[i].ret = "true"

\* C3: a request answered by a status other than 200 and 429, or failing with
\* a transport error, ends the call: it returns False, sends no further
\* request, does not sleep after that answer and leaves the log as it was
C3_PermanentFailure ==
    \A i \in DOMAIN calls :
        LET c == calls[i]
        IN  \A n \in DOMAIN c.statuses :
                c.statuses[n] \notin {200, 429}
                => /\ n = Len(c.statuses)
                   /\ c.ret = "false"
                   /\ Len(c.sleeps) = n - 1
                   /\ c.logAfter = c.logBefore
                   /\ i = Len(calls) /\ pc = "u_rows" /\ row = Len(rowlog) + 1
                          => success_log_file = c.logBefore

C3_Witness ==
    \E i, j \in DOMAIN calls :
        /\ calls[i].statuses = <<429, 500>>
        /\ calls[i].ret = "false"
        /\ calls[j].statuses = <<0>>
        /\ calls[j].ret = "false"

\* the ID is on a line of the log file
InLog(id, file) ==
    /\ file.exists
    /\ \E line \in Range(ReadLines(file.data)) : Strip(line) = Str(id)

\* a step that changes the log file leaves the IDs that
\* load_updated_highlight_ids returned in its result
LogOnlyGrows ==
    success_log_file' # success_log_file
        => load_updated_highlight_ids \subseteq load_updated_highlight_ids'

\* no call of update_highlight_tags of this pass is for an ID that was in
\* the log file when the pass began
NoPatchOfLogged ==
    \A i \in DOMAIN calls : ~InLog(calls[i].id, startlog)

\* C4: the set load_updated_highlight_ids returns only grows, over all runs
\* of the script, and a pass sends no PATCH for an ID that was in the log
\* when the pass began
C4_LogMonotonic == [][LogOnlyGrows /\ NoPatchOfLogged']_vars

C4_Witness ==
    /\ runs >= 1
    /\ pc = "done"
    /\ \E k \in DOMAIN rowlog :
           /\ rowlog[k].outcome = "skipped"
           /\ InLog(rowlog[k].id, startlog)
    /\ \E k \in DOMAIN rowlog : rowlog[k].outcome = "pushed"

\* the lines of the log file are the IDs of the calls answered 200, in order
LogIsSuccesses ==
    /\ ReadLines(success_log_file.data)
           = [k \in DOMAIN succeeded |-> Str(succeeded[k]) \o <<"\n">>]
    /\ \A i \in DOMAIN calls :
           calls[i].ret = "true" => InLog(calls[i].id, success_log_file)
    /\ success_log_file.exists \/ succeeded = <<>>

\* a step leaves the log file alone or is the 200 of the running call, which
\* appends the line of its ID
LogAppendOnly ==
    \/ success_log_file' = success_log_file
    \/ /\ pc = "push"
       /\ calls'[Len(calls)].statuses = Append(calls[Len(calls)].statuses, 200)
       /\ calls'[Len(calls)].ret = "true"
       /\ success_log_file'
              = File(success_log_file.data \o Str(highlight_id) \o <<"\n">>)

\* C5: the log file is append-only and holds one line per successful call of
\* update_highlight_tags and no other line, over all runs of the script
C5_LogAppendOnly == [][LogAppendOnly /\ LogIsSuccesses']_vars

C5_Witness ==
    /\ runs >= 1
    /\ pc = "done"
    /\ Len(succeeded) >= 1
    /\ \E i \in DOMAIN calls :
           /\ calls[i].ret = "false"
           /\ ~InLog(calls[i].id, success_log_file)

\* ------------------------------------------------- the matcher of the spec
UpperCase == <<"A", "B", "C", "D", "E", "F", "G", "H", "I", "J", "K", "L", "M",
               "N", "O", "P", "Q", "R", "S", "T", "U", "V", "W", "X", "Y", "Z">>
LowerCase == <<"a", "b", "c", "d", "e", "f", "g", "h", "i", "j", "k", "l", "m",
               "n", "o", "p", "q", "r", "s", "t", "u", "v", "w", "x", "y", "z">>

LowerChar(c) ==
    IF \E i \in DOMAIN UpperCase : UpperCase[i] = c
    THEN LowerCase[CHOOSE i \in DOMAIN UpperCase : UpperCase[i] = c]
    ELSE c

\* surrounding whitespace trimmed, lower case
Normalize(s) == [i \in DOMAIN Strip(s) |-> LowerChar(Strip(s)[i])]

\* the whole normalized text when shorter than 100 characters, else its
\* first 100 characters
MatchKey(s) ==
    IF Len(Normalize(s)) < 100 THEN Normalize(s)
    ELSE SubSeq(Normalize(s), 1, 100)

Contains(hay, needle) ==
    \E i \in 1..(Len(hay) - Len(needle) + 1) :
        SubSeq(hay, i, i + Len(needle) - 1) = needle

\* the match rule: the key of the row's text occurs in the candidate's text
Accepts(rowText, candidateText) ==
    Contains(Normalize(candidateText), MatchKey(rowText))

\* the books fetched by the update phase that carry the title, by index
TitledBooks(title) ==
    {b \in DOMAIN highlights_data : highlights_data[b].title = title}

\* the highlights of book b the rule accepts for the text, by index
AcceptedIn(b, text) ==
    {h \in DOMAIN highlights_data[b].highlights :
        Accepts(text, highlights_data[b].highlights[h].text)}

\* C6: the highlight chosen for a row is a candidate of a title-matched book
\* whose normalized text contains the match key of the row's text, the first
\* such candidate of its book, and a row is left unmatched only when no
\* candidate of the title-matched books is accepted
C6_MatchRule ==
    \A k \in DOMAIN rowlog :
        LET r == csv_file.data[rowlog[k].row]
            books == TitledBooks(r.title)
        IN  IF \A b \in books : AcceptedIn(b, r.text) = {}
            THEN rowlog[k].id = 0
            ELSE \E b \in books :
                    /\ AcceptedIn(b, r.text) # {}
                    /\ rowlog[k].id = highlights_data[b].highlights[
                                          Least(AcceptedIn(b, r.text))].id

\* row k is the row of highlight h of book b, whose text has since grown by
\* characters at its end; no other highlight is accepted for the row and no
\* other row for the highlight
Drifted(k, b, h) ==
    LET r == csv_file.data[k]
        hl_ == highlights_data[b].highlights[h]
    IN  /\ highlights_data[b].title = r.title
        /\ Len(hl_.text) > Len(r.text)
        /\ SubSeq(hl_.text, 1, Len(r.text)) = r.text
        /\ ~InLog(hl_.id, startlog)
        /\ \A b2 \in TitledBooks(r.title) :
               \A h2 \in AcceptedIn(b2, r.text) : b2 = b /\ h2 = h
        /\ \A k2 \in DOMAIN csv_file.data :
               (/\ csv_file.data[k2].title = r.title
                /\ Accepts(csv_file.data[k2].text, hl_.text)) => k2 = k

\* C7: when the pass has ended, every PATCH was answered 200 and a row's
\* highlight has drifted, the pass called update_highlight_tags once for the
\* highlight, with the row's tags, and its ID is in the log
C7_DriftTolerated ==
    (pc = "done" /\ \A i \in DOMAIN calls : calls[i].statuses = <<200>>)
    => \A k \in DOMAIN csv_file.data : \A b \in DOMAIN highlights_data :
           \A h \in DOMAIN highlights_data[b].highlights :
               Drifted(k, b, h)
               => LET id == highlights_data[b].highlights[h].id
                      mine == {i \in DOMAIN calls : calls[i].id = id}
                  IN  /\ Cardinality(mine) = 1
                      /\ \A i \in mine : calls[i].tags = RowTags(csv_file.data[k])
                      /\ InLog(id, success_log_file)

\* C8: the highlight chosen for a row is one of the first fetched book that
\* carries the row's title
C8_FirstTitledBook ==
    \A k \in DOMAIN rowlog :
        rowlog[k].id # 0
        => LET first == Least(TitledBooks(csv_file.data[rowlog[k].row].title))
           IN  \E h \in DOMAIN highlights_data[first].highlights :
                   highlights_data[first].highlights[h].id = rowlog[k].id

ExportGets == SelectSeq(gets, LAMBDA g : g.phase = "export")
UpdateGets == SelectSeq(gets, LAMBDA g : g.phase = "update")

\* the results of the requests answered 200, one after the other
Accumulated(gs) ==
    Flatten([n \in DOMAIN gs |->
                IF gs[n].status = 200 THEN gs[n].results ELSE <<>>])

\* C9: the fetch of the update phase ends at a response without cursor (or
\* at a failure) and the books the rows are matched against are the results
\* of all its pages
C9_UpdateFetchPaginated ==
    pc \in {"u_rows", "push", "done"}
    => /\ UpdateGets # <<>>
       /\ LET last == UpdateGets[Len(UpdateGets)]
          IN  last.status = 200 => last.next = None
       /\ highlights_data = Accumulated(UpdateGets)

\* C10: the export fetch sends its first request without cursor and each
\* further one with the cursor of the response before, which was a 200 with
\* a cursor; its accumulator is the results of the 200 responses in order;
\* after a response of another status it has returned and the export goes
\* on to write the CSV file
C10_ExportFetch ==
    LET xs == ExportGets
        n == Len(xs)
    IN  /\ \A i \in DOMAIN xs :
               IF i = 1 THEN xs[i].cursor = None
               ELSE /\ xs[i - 1].status = 200
                    /\ xs[i - 1].next # None
                    /\ xs[i].cursor = xs[i - 1].next
        /\ all_highlights = Accumulated(xs)
        /\ (pc = "x_get" /\ n > 0) => (xs[n].status = 200 /\ xs[n].next # None)
        /\ (pc # "x_get" /\ n > 0 /\ xs[n].status = 200) => xs[n].next = None
        /\ (n > 0 /\ xs[n].status = 500)
               => /\ pc \notin {"x_get", "crashed"}
                  /\ pc # "x_open" => csv_file.exists

C10_Witness ==
    /\ pc = "x_rows"
    /\ Len(ExportGets) = 2
    /\ ExportGets[1].status = 200
    /\ ExportGets[2].status = 500
    /\ ExportGets[2].cursor = ExportGets[1].next
    /\ Len(all_highlights) = 1

Min(a, b) == IF a < b THEN a ELSE b

\* the highlights the export found with text, as records of exportlog
WrittenHighlights == {i \in DOMAIN exportlog : exportlog[i].row # 0}

\* C11: for every highlight with text, with e existing tags: when e >= 3 the
\* suggester is not called and the final tags are the existing ones; when
\* e < 3 it is called exactly once and, with s tags returned, the final tags
\* are the existing ones followed by the first min(3 - e, s) returned ones,
\* min(3, e + s) in all; the row written holds the final tags
C11_TagCompletion ==
    \A i \in WrittenHighlights :
        LET r == exportlog[i]
            e == Len(r.existing)
        IN  /\ IF e >= 3
               THEN /\ r.answers = <<>>
                    /\ r.final = r.existing
               ELSE /\ Len(r.answers) = 1
                    /\ Len(r.returned) = 1
                    /\ LET s == Len(r.returned[1])
                       IN  /\ r.final = r.existing
                                  \o SubSeq(r.returned[1], 1, Min(3 - e, s))
                           /\ Len(r.final) = Min(3, e + s)
            /\ csv_file.exists
            /\ r.row \in DOMAIN csv_file.data
            /\ csv_file.data[r.row].tags = Join(r.final, CommaSpace)

C11_Witness ==
    /\ \E i \in WrittenHighlights :
           Len(exportlog[i].existing) = 4 /\ exportlog[i].answers = <<>>
    /\ \E i \in WrittenHighlights :
           /\ exportlog[i].existing = <<>>
           /\ Len(exportlog[i].returned[1]) = 4
           /\ Len(exportlog[i].final) = 3

\* the IDs of the highlights of the books fetched, in the order of the loops
ExportOrder ==
    Flatten([b \in DOMAIN all_highlights |->
                [h \in DOMAIN all_highlights[b].highlights |->
                    all_highlights[b].highlights[h].id]])

\* the records of the highlights for which the suggester failed
FailedSuggestions ==
    {i \in WrittenHighlights :
        exportlog[i].answers # <<>> /\ ~exportlog[i].answers[1].ok}

\* C12: when the suggester fails it returns the empty list, the row of the
\* highlight is written with its existing tags only, and the export goes
\* on: the highlights gone through are those of the books fetched, in
\* order, and all of them once the export has ended
C12_SuggesterFailure ==
    /\ \A i \in FailedSuggestions :
           LET r == exportlog[i]
           IN  /\ r.returned = << <<>> >>
               /\ r.final = r.existing
               /\ csv_file.exists
               /\ csv_file.data[r.row].tags = Join(r.existing, CommaSpace)
    /\ Len(exportlog) <= Len(ExportOrder)
    /\ \A i \in DOMAIN exportlog : exportlog[i].id = ExportOrder[i]
    /\ (FailedSuggestions # {} /\ pc \notin {"x_rows"})
           => Len(exportlog) = Len(ExportOrder)

C12_Witness ==
    /\ pc = "u_rows"
    /\ Len(exportlog) = 2
    /\ 1 \in FailedSuggestions
    /\ Len(exportlog[1].existing) = 2
    /\ exportlog[2].row = 2
    /\ exportlog[2].answers # <<>>
    /\ exportlog[2].answers[1].ok

\* the requests that ended in a transport error
TransportErrors == {i \in DOMAIN gets : gets[i].status = 0}

\* C13: after a transport error of the export fetch or of the update fetch
\* the script does not end in an uncaught exception: the fetch is over and
\* the run goes on, to the rows of the file and to its end
C13_TransportFailure ==
    TransportErrors # {} => pc # "crashed"

\* the most rows a CSV file of the model holds
MaxRows == 2

\* C14: once the pass has opened the file, each of its rows is in the end
\* processed (unmatched, skipped or pushed), whatever the rows before it
\* led to
C14_EveryRowProcessed ==
    \A k \in 1..MaxRows :
        (pc = "u_rows" /\ k <= Len(csv_file.data))
            ~> (Len(rowlog) >= k /\ rowlog[k].row = k)

C14_Witness ==
    /\ Len(rowlog) = 2
    /\ Len(calls) >= 1
    /\ calls[1].statuses = RateLimited(MAX_RETRIES)
    /\ calls[1].ret = "false"
    /\ rowlog[1].outcome = "pushed"

\* the fragments of a content between its commas, trimmed, the empty ones
\* dropped
Fragments(content) ==
    LET parts == Split(content, Comma)
    IN  SelectSeq([i \in DOMAIN parts |-> Strip(parts[i])],
                  LAMBDA t : t # <<>>)

\* C15: for every response of the text-generation service the suggester
\* returns at most 3 tags, which are the non-empty trimmed fragments of the
\* response between its commas, in the order of the response
C15_SuggestTags ==
    \A i \in DOMAIN exportlog :
        \A j \in DOMAIN exportlog[i].answers :
            LET answer == exportlog[i].answers[j]
                returned == exportlog[i].returned[j]
            IN  answer.ok
                    => /\ Len(returned) <= 3
                       /\ \A k \in DOMAIN returned :
                              returned[k] # <<>> /\ Strip(returned[k]) = returned[k]
                       /\ \E n \in 0..Len(Fragments(answer.content)) :
                              returned = Take(Fragments(answer.content), n)

\* the rows of the file are kept by a step, which may add rows after them
RowsKept ==
    csv_file.exists
        => /\ csv_file'.exists
           /\ Len(csv_file'.data) >= Len(csv_file.data)
           /\ SubSeq(csv_file'.data, 1, Len(csv_file.data)) = csv_file.data

\* the rows the pass has gone through are the rows of the file, which are
\* those the export wrote, in order
RowsInOrder ==
    /\ \A k \in DOMAIN rowlog :
           rowlog[k].row = k /\ k \in DOMAIN csv_file.data
    /\ Len(csv_file.data) = Cardinality(WrittenHighlights)
    /\ \A i \in WrittenHighlights :
           csv_file.data[exportlog[i].row].tags
               = Join(exportlog[i].final, CommaSpace)
    /\ pc = "done" => Len(rowlog) = Len(csv_file.data)

\* C16: a row the export has written is not changed by any later step; the
\* steps of the update phase do not write the file; the rows the update
\* phase goes through are the rows written, in the order written
C16_FileFixed ==
    [][/\ RowsKept
       /\ pc \notin {"x_open", "x_rows"} => csv_file' = csv_file
       /\ RowsInOrder']_vars

C16_Witness ==
    /\ pc = "done"
    /\ Len(csv_file.data) = 2
    /\ Len(calls) = 2
    /\ calls[1].ret = "true"
    /\ calls[2].ret = "false"

\* a tag list as it is read back from the Tags column it was written to
ThroughFile(names) == Split(Join(names, CommaSpace), CommaSpace)

\* the texts of the service's highlights have no blanks around them: the
\* export writes them as they are
TextsAsWritten ==
    \A pos \in Positions :
        LET text == remote[pos[1]][pos[2]].highlights[pos[3]].text
        IN  Strip(text) = text

\* C17: when the service's data is as it was at the export, every call of
\* update_highlight_tags for an ID carries the final tags the export
\* computed for the highlight of that ID, also when two highlights of a
\* book, or of two books of one title, have the same text
C17_TagsOfSameHighlight ==
    (drifts = 0 /\ TextsAsWritten)
        => \A c \in DOMAIN calls :
               \E i \in WrittenHighlights :
                   /\ exportlog[i].id = calls[c].id
                   /\ ThroughFile(exportlog[i].final) = calls[c].tags

\* the calls of update_highlight_tags of the pass that returned True
Successes == {c \in DOMAIN calls : calls[c].ret = "true"}

\* C18: in a pass no ID has two successful calls of update_highlight_tags,
\* and no two lines of the log hold the same ID, also when two rows of the
\* file are matched to one highlight
C18_OncePerPass ==
    /\ \A c, d \in Successes : calls[c].id = calls[d].id => c = d
    /\ LET lines == ReadLines(success_log_file.data)
       IN  \A i, j \in DOMAIN lines :
               Strip(lines[i]) = Strip(lines[j]) => i = j

\* C19: the tags update_highlight_tags is called with for a row are the
\* final tags the export joined into the Tags column of that row; when the
\* final tags are empty no tag with an empty name is sent
C19_TagsRoundTrip ==
    pc = "push"
        => /\ \A i \in WrittenHighlights :
                  exportlog[i].row = row
                      => /\ tags = exportlog[i].final
                         /\ calls[Len(calls)].tags = exportlog[i].final
           /\ \A k \in DOMAIN tags : tags[k] # <<>>

\* every row gone through led to at most one call of update_highlight_tags
\* and every call to at most 5 PATCH requests
PatchesBounded ==
    /\ Len(calls) <= Len(rowlog)
    /\ \A c \in DOMAIN calls : Len(calls[c].statuses) <= 5

\* C20: a pass over a file comes to its end, whatever the answers to its
\* PATCH requests are, 429 without end included, with at most 5 PATCH
\* requests for a row
C20_PassTerminates ==
    /\ []PatchesBounded
    /\ (pc = "u_rows") ~> (pc = "done" /\ Len(rowlog) = Len(csv_file.data))

C20_Witness ==
    /\ pc = "done"
    /\ Len(calls) = 2
    /\ calls[1].statuses = RateLimited(5)
    /\ calls[2].statuses = RateLimited(5)

====
